---- MODULE Spec2Model ----
(***************************************************************************)
(* Model of open-inbox: three command line entry points sharing one OAuth  *)
(* token file (credentials/token.json).                                    *)
(*   fetch_email.py            unread mail -> memos, then mark as read     *)
(*   send_email.py             send one mail                               *)
(*   create_calendar_event.py  insert one calendar event                   *)
(* One process runs at a time.  A run is split at its remote calls and at  *)
(* its file operations, so that a kill of the process (Crash) can fall     *)
(* between any two of them.                                                *)
(***************************************************************************)
EXTENDS Integers, Sequences, FiniteSets, TLC

\* ---------------------------------------------------------------- bounds
MaxItems == 3       \* messages that ever arrive in the mailbox

\* ------------------------------------------------------ program constants
MaxResults == 10    \* get_unread_emails(service, max_results=10)

Items == 1..MaxItems

\* Status codes the note service answers with (one per class that matters).
Statuses == {200, 201, 500}

\* ----------------------------------------------------------------- scopes
GmailScopes == {"gmail.readonly", "gmail.modify", "gmail.send"}
SendScopes == {"gmail.send"}
CalendarScopes == GmailScopes \cup {"calendar", "calendar.events"}

FetchModes == {"fetch", "fetch_auth"}
CalendarModes == {"calendar", "calendar_auth"}
Modes == FetchModes \cup CalendarModes \cup {"send"}

\* SCOPES of the script that runs in mode m.
SCOPES(m) ==
    IF m \in FetchModes THEN GmailScopes
    ELSE IF m = "send" THEN SendScopes
    ELSE CalendarScopes

\* What the remote API demands of the token for each call.
Required(api) ==
    CASE api = "list"   -> {"gmail.readonly"}
      [] api = "get"    -> {"gmail.readonly"}
      [] api = "modify" -> {"gmail.modify"}
      [] api = "send"   -> {"gmail.send"}
      [] api = "insert" -> {"calendar.events"}
      [] OTHER          -> {}

\* ------------------------------------------------------------ credentials
\* kind: "absent" (no file / creds = None), "truncated" (file opened for
\* writing, nothing written yet), "creds".  scopes is the scope list the
\* object carries; granted is what the authorization server really granted
\* to the refresh token (not a field of the file: it lives at the server).
\* The access token itself is always present in what the program writes, so
\* valid reduces to "not expired".
None == [kind |-> "absent", expired |-> FALSE, refresh_token |-> FALSE,
         scopes |-> {}, granted |-> {}]
Truncated == [None EXCEPT !.kind = "truncated"]

CredsValues ==
    [kind : {"creds"}, expired : BOOLEAN, refresh_token : BOOLEAN,
     scopes : {GmailScopes, SendScopes, CalendarScopes},
     granted : {GmailScopes, CalendarScopes}]

VARIABLES
    tokenFile,        \* credentials/token.json
    credentialsFile,  \* credentials/gmail_credentials.json exists
    memosToken,       \* MEMOS_API_TOKEN is set in the environment of the run
    mailbox,          \* per message: "none" (not arrived), "unread", "read"
    notes,            \* per message: memos the note service holds for it:
                      \* "none", "one" or "many" (two or more)
    consumed,         \* messages whose UNREAD label the pipeline removed
    mode,             \* entry point of the current (or last) run
    pc,               \* position of the run; "done" = it has ended,
                      \* "idle" = no process
    exit,             \* how the last run ended
    error,            \* the exception that ended it, if any
    creds,            \* the in-memory credentials object
    messages,         \* get_unread_emails: the ids the list call returned
    body,             \* get_unread_emails: body of the message just fetched
    emails,           \* the items fetched so far, then the list main works on
    idx,              \* position of the for loop (in messages, then emails)
    args,             \* command line of create_calendar_event.py
    event,            \* request body of the calendar insertion
    run               \* what the current run has done so far (history)

vars == <<tokenFile, credentialsFile, memosToken, mailbox, notes,
          consumed, mode, pc, exit, error, creds, messages, body, emails, idx,
          args, event, run>>

listing == <<messages, body>>

env == <<credentialsFile, memosToken>>
remote == <<mailbox, notes, consumed>>

\* History of one run.
NewRun(file) ==
    [tokenFile0 |-> file,      \* the token file when the run started
     read |-> FALSE,           \* get_*_service has looked at the token file
     loaded |-> None,          \* the credentials as read from the file
     obtained |-> FALSE,       \* get_*_service returned
     refreshCalls |-> 0,
     refreshRejected |-> FALSE,
     grantCalls |-> 0,
     writes |-> 0,             \* times the token file was opened for writing
     calls |-> {},             \* Google API calls: <<api, granted scopes>>
     fetchError |-> FALSE,     \* the list call or a full fetch failed
     listed |-> FALSE,         \* get_unread_emails returned
     processed |-> <<>>,       \* messages the loop has finished with, in order
     posted |-> {},            \* a note-creation request was sent
     created |-> {},           \* create_memo returned True
     failed |-> {},            \* create_memo returned False
     marked |-> {},            \* mark_as_read was invoked
     lastStatus |-> 0,         \* status of the last note-creation response
     lastOk |-> FALSE]         \* what create_memo returned for it

\* ---------------------------------------------- calendar command line
\* A date or time string of the command line: the format it is written in
\* ("" = option not given, "other" = no format the script knows) and the
\* numbers it spells.
Text(f, yy, mm, dd, hh, mi, ss) ==
    [fmt |-> f, y |-> yy, mo |-> mm, d |-> dd, h |-> hh, mi |-> mi, s |-> ss]
NotGiven == Text("", 0, 0, 0, 0, 0, 0)
Garbage == Text("other", 0, 0, 0, 0, 0, 0)

\* formats of parse_datetime, in the order it tries them
Formats == <<"%Y-%m-%d %H:%M", "%Y-%m-%d %H:%M:%S",
             "%Y-%m-%dT%H:%M", "%Y-%m-%dT%H:%M:%S">>
DateFormat == "%Y-%m-%d"

HasSeconds(f) == f \in {Formats[2], Formats[4]}

Days == {<<2026, 2, 10>>, <<2026, 2, 28>>, <<2024, 2, 28>>, <<2026, 12, 31>>}
Moments == {<<2026, 2, 10, 14, 0, 0>>, <<2026, 12, 31, 23, 30, 15>>}

DateArgs ==
    {NotGiven, Garbage} \cup
    {Text(DateFormat, t[1], t[2], t[3], 0, 0, 0) : t \in Days}
TimeArgs ==
    {NotGiven, Garbage} \cup
    {Text(Formats[k], t[1], t[2], t[3], t[4], t[5],
          IF HasSeconds(Formats[k]) THEN t[6] ELSE 0) :
       k \in 1..4, t \in Moments}
EndArgs ==
    {NotGiven, Garbage, Text(Formats[1], 2026, 2, 10, 15, 30, 0),
     Text(Formats[4], 2027, 1, 1, 0, 30, 0)}

\* --reminder: <<>> when the option is not given, else <<minutes>>.
ReminderArgs == {<<>>, <<0>>, <<15>>}
\* --timezone: "" when the option is not given.
TimezoneArgs == {"", "Europe/Paris"}

NoArgs == [auth |-> FALSE, title |-> FALSE, date |-> NotGiven,
           start |-> NotGiven, end |-> NotGiven, timezone |-> "",
           reminder |-> <<>>]

\* Every command line (without a title nothing else is looked at).
CalendarArgs ==
    {[NoArgs EXCEPT !.auth = TRUE], NoArgs} \cup
    [auth : {FALSE}, title : {TRUE}, date : DateArgs, start : TimeArgs,
     end : EndArgs, timezone : TimezoneArgs, reminder : ReminderArgs]

\* A few of them.
SmallArgs ==
    LET t == [NoArgs EXCEPT !.title = TRUE]
        at == Text(Formats[1], 2026, 2, 10, 14, 0, 0)
    IN {[NoArgs EXCEPT !.auth = TRUE], NoArgs, t,
        [t EXCEPT !.date = Text(DateFormat, 2026, 2, 10, 0, 0, 0)],
        [t EXCEPT !.start = at],
        [t EXCEPT !.start = at, !.end = Text(Formats[1], 2026, 2, 10, 15, 30, 0),
                  !.reminder = <<0>>],
        [t EXCEPT !.start = Garbage]}

\* A side of the event: {'date': ...} or {'dateTime': ..., 'timeZone': ...}.
\* value is the string, as the tuple of the numbers it spells.
Side(k, v, tz) == [kind |-> k, value |-> v, timeZone |-> tz]
NoSide == Side("none", <<>>, "")
NoEvent == [start |-> NoSide, end |-> NoSide, reminders |-> <<>>]

Init ==
    /\ tokenFile = None
    /\ credentialsFile \in BOOLEAN
    /\ memosToken = FALSE
    /\ mailbox = [i \in Items |-> "none"]
    /\ notes = [i \in Items |-> "none"]
    /\ consumed = {}
    /\ mode = "fetch"
    /\ pc = "idle"
    /\ exit = "none"
    /\ error = "none"
    /\ creds = None
    /\ messages = <<>>
    /\ body = ""
    /\ emails = <<>>
    /\ idx = 0
    /\ args = NoArgs
    /\ event = NoEvent
    /\ run = NewRun(None)

\* ------------------------------------------------------------ run control
Begin(m) ==
    /\ mode' = m
    /\ creds' = None
    /\ messages' = <<>>
    /\ body' = ""
    /\ emails' = <<>>
    /\ idx' = 0
    /\ event' = NoEvent
    /\ run' = NewRun(tokenFile)

NoCalendar == args' = NoArgs

\* sys.exit(1), an uncaught exception, or falling off the end of main.
Finish(how, err) ==
    /\ pc' = "done"
    /\ exit' = how
    /\ error' = err

\* The run goes on at p.
Goto(p) ==
    /\ pc' = p
    /\ exit' = "none"
    /\ error' = "none"

\* Mutant: the configuration check is missing.
SinkConfiguredAlways(tok) == TRUE

\* `if not MEMOS_API_TOKEN` is false: the sink is configured.
SinkConfigured(tok) == tok

\* fetch_email.main up to the first call of get_gmail_service.
StartFetch ==
    /\ pc = "idle"
    /\ \E auth \in BOOLEAN, tok \in BOOLEAN :
         /\ Begin(IF auth THEN "fetch_auth" ELSE "fetch")
         /\ memosToken' = tok
         /\ NoCalendar
         /\ IF ~auth /\ ~SinkConfigured(tok)
              THEN Finish("exit1", "MEMOS_API_TOKEN not set")
              ELSE Goto("load")
    /\ UNCHANGED <<tokenFile, credentialsFile, remote>>

\* send_email.main: argparse, then send_email calls get_gmail_service first.
StartSend ==
    /\ pc = "idle"
    /\ Begin("send")
    /\ NoCalendar
    /\ Goto("load")
    /\ UNCHANGED <<tokenFile, env, remote>>

\* ------------------------------------------------------ get_*_service
Valid(c) == c.kind = "creds" /\ ~c.expired

\* Credentials.from_authorized_user_file(path, SCOPES): the scope list given
\* by the caller replaces the one stored in the file; nothing is compared.
FromFile(file, scopes) == [file EXCEPT !.scopes = scopes]

\* creds.to_json()
ToJson(c) == c

\* Mutant: the validity of the loaded credentials is not looked at.
NeedsTokenAlways(c) == TRUE

\* `if not creds or not creds.valid`
NeedsToken(c) == c.kind = "absent" \/ ~Valid(c)

\* `if creds and creds.expired and creds.refresh_token`
Refreshable(c) == c.kind = "creds" /\ c.expired /\ c.refresh_token

\* Mutant: the client-secrets file is not looked for.
AfterLoadNoSecretsCheck(m, c, secrets) ==
    IF ~NeedsToken(c) THEN "build"
    ELSE IF Refreshable(c) THEN "refresh"
    ELSE IF m = "send" THEN "exit1"
    ELSE "grant"

\* Mutant: send_email gets its service whatever the token file holds.
AfterLoadSendAnyway(m, c, secrets) ==
    IF ~NeedsToken(c) THEN "build"
    ELSE IF Refreshable(c) THEN "refresh"
    ELSE IF m = "send" THEN "build"
    ELSE IF ~secrets THEN "exit1"
    ELSE "grant"

\* Where get_*_service goes once the token file has been read.
AfterLoad(m, c, secrets) ==
    IF ~NeedsToken(c) THEN "build"
    ELSE IF Refreshable(c) THEN "refresh"
    ELSE IF m = "send" THEN "exit1"
    ELSE IF ~secrets THEN "exit1"
    ELSE "grant"

\* After creds.refresh(Request()) returned: fetch_email and
\* create_calendar_event fall through to the save block, send_email has none.
AfterRefresh(m) == IF m = "send" THEN "build" ELSE "open"

\* Read the token file and choose the branch.
LoadToken ==
    /\ pc = "load"
    /\ IF tokenFile.kind = "truncated"
         THEN \* json.load fails on the empty file
              /\ Finish("exception", "JSONDecodeError")
              /\ run' = [run EXCEPT !.read = TRUE]
              /\ UNCHANGED creds
         ELSE IF tokenFile.kind = "absent" /\ mode = "send"
         THEN /\ Finish("exit1", "Token file not found")
              /\ run' = [run EXCEPT !.read = TRUE]
              /\ UNCHANGED creds
         ELSE LET c == IF tokenFile.kind = "absent" THEN None
                       ELSE FromFile(tokenFile, SCOPES(mode))
                  to == AfterLoad(mode, c, credentialsFile)
              IN /\ creds' = c
                 /\ run' = [run EXCEPT !.read = TRUE, !.loaded = c]
                 /\ IF to = "exit1"
                      THEN Finish("exit1",
                                  IF mode = "send" THEN "Token expired or invalid"
                                  ELSE "Credentials file not found")
                      ELSE pc' = to /\ UNCHANGED <<exit, error>>
    /\ UNCHANGED <<tokenFile, env, remote, mode, listing, emails, idx, args, event>>

\* creds.refresh(Request()): one request to the token endpoint.
Refresh ==
    /\ pc = "refresh"
    /\ \E ok \in BOOLEAN :
         IF ok
           THEN /\ creds' = [creds EXCEPT !.expired = FALSE]
                /\ run' = [run EXCEPT !.refreshCalls = @ + 1]
                /\ pc' = AfterRefresh(mode)
                /\ UNCHANGED <<exit, error>>
           ELSE /\ run' = [run EXCEPT !.refreshCalls = @ + 1,
                                      !.refreshRejected = TRUE]
                /\ Finish("exception", "RefreshError")
                /\ UNCHANGED creds
    /\ UNCHANGED <<tokenFile, env, remote, mode, listing, emails, idx, args, event>>

\* InstalledAppFlow.from_client_secrets_file(..., SCOPES).run_local_server()
Grant ==
    /\ pc = "grant"
    /\ \E ok \in BOOLEAN, rt \in BOOLEAN :
         IF ok
           THEN /\ creds' = [kind |-> "creds", expired |-> FALSE,
                             refresh_token |-> rt, scopes |-> SCOPES(mode),
                             granted |-> SCOPES(mode)]
                /\ run' = [run EXCEPT !.grantCalls = @ + 1]
                /\ pc' = "open"
                /\ UNCHANGED <<exit, error>>
           ELSE /\ run' = [run EXCEPT !.grantCalls = @ + 1]
                /\ Finish("exception", "grant failed")
                /\ UNCHANGED creds
    /\ UNCHANGED <<tokenFile, env, remote, mode, listing, emails, idx, args, event>>

\* open(TOKEN_FILE, 'w'): the file is truncated in place.
OpenTokenFile ==
    /\ pc = "open"
    /\ tokenFile' = Truncated
    /\ run' = [run EXCEPT !.writes = @ + 1]
    /\ pc' = "write"
    /\ UNCHANGED <<env, remote, mode, exit, error, creds, listing, emails, idx, args, event>>

\* f.write(creds.to_json()) and the close of the with block.
WriteTokenFile ==
    /\ pc = "write"
    /\ tokenFile' = ToJson(creds)
    /\ pc' = "build"
    /\ UNCHANGED <<env, remote, mode, exit, error, creds, listing, emails, idx, args, event, run>>

\* return build(...): back in the caller.
BuildService ==
    /\ pc = "build"
    /\ run' = [run EXCEPT !.obtained = TRUE]
    /\ IF mode \in {"fetch_auth", "calendar_auth"}
         THEN Finish("ok", "none")
         ELSE /\ pc' = CASE mode = "fetch" -> "list"
                         [] mode = "send" -> "send"
                         [] OTHER -> "event"
              /\ UNCHANGED <<exit, error>>
    /\ UNCHANGED <<tokenFile, env, remote, mode, creds, listing, emails, idx, args, event>>


\* ------------------------------------------------------------ fetch_email
Min(a, b) == IF a < b THEN a ELSE b

\* Mutant: the list call filters on INBOX alone.
WholeInbox(mb) == {i \in Items : mb[i] # "none"}

\* labelIds=['INBOX', 'UNREAD']: the messages the list call selects.
UnreadInbox(mb) == {i \in Items : mb[i] = "unread"}

\* The provider returns at most MaxResults of them, in its own order
\* (here: oldest first or newest first).
Listings(S) ==
    LET n == Min(Cardinality(S), MaxResults)
    IN {f \in [1..n -> S] :
          \/ \A a, b \in 1..n : a < b => f[a] < f[b]
          \/ \A a, b \in 1..n : a < b => f[a] > f[b]}

\* A Google API call with the credentials of the run: the remote rejects it
\* when the granted scopes do not cover it, and may fail anyway.
Outcomes(api) == IF Required(api) \subseteq creds.granted THEN BOOLEAN ELSE {FALSE}
Called(api) == [run EXCEPT !.calls = @ \cup {<<api, creds.granted>>}]

\* Payloads the full fetch of a message can return.
Payloads == {"plain_part", "html_parts", "single_body", "no_body_data",
             "bad_padding", "no_headers"}

\* The body extraction of get_unread_emails on a payload: the text, "" when
\* nothing is found, or the exception the code lets escape.
\*   plain_part    parts with a text/plain part             -> its text
\*   html_parts    parts, none of them text/plain           -> ""
\*   single_body   no parts, body.data present              -> its text
\*   no_body_data  no parts, body without data              -> ""
\*   bad_padding   data that is not well-formed base64      -> binascii.Error
\*   no_headers    payload without the 'headers' key        -> KeyError
ExtractBody(p) ==
    CASE p = "no_headers"  -> "raise KeyError"
      [] p = "bad_padding" -> "raise binascii.Error"
      [] p \in {"plain_part", "single_body"} -> "text"
      [] OTHER -> ""

Raises(r) == r \in {"raise KeyError", "raise binascii.Error"}

\* Mutant: an HTTP error of the listing is swallowed, the items fetched so
\* far are returned.
OnFetchErrorReturn(api) == "return"

\* No try/except in get_unread_emails nor around its call in main: an
\* HttpError of .execute() leaves both.
OnFetchError(api) == "raise"

\* get_unread_emails returns l to main, which stops on an empty list.
ReturnEmails(l) ==
    /\ emails' = l
    /\ body' = ""
    /\ IF l = <<>>
         THEN Finish("ok", "none") /\ idx' = 0
         ELSE pc' = "memo" /\ idx' = 1 /\ UNCHANGED <<exit, error>>

\* get_unread_emails: the list call.
ListUnread ==
    /\ pc = "list"
    /\ \E ok \in Outcomes("list") :
         IF ok
           THEN \E l \in Listings(UnreadInbox(mailbox)) :
                  /\ messages' = l
                  /\ IF l = <<>>
                       THEN /\ run' = [Called("list") EXCEPT !.listed = TRUE]
                            /\ ReturnEmails(<<>>)
                       ELSE /\ run' = Called("list")
                            /\ pc' = "get" /\ idx' = 1
                            /\ UNCHANGED <<exit, error, emails, body>>
           ELSE /\ IF OnFetchError("list") = "raise"
                     THEN /\ run' = [Called("list") EXCEPT !.fetchError = TRUE]
                          /\ Finish("exception", "HttpError")
                          /\ UNCHANGED <<emails, idx, body>>
                     ELSE /\ run' = [Called("list") EXCEPT !.fetchError = TRUE,
                                                           !.listed = TRUE]
                          /\ ReturnEmails(<<>>)
                /\ UNCHANGED messages
    /\ UNCHANGED <<tokenFile, env, remote, mode, creds, args, event>>

\* get_unread_emails: one pass of `for msg in messages`.
GetMessage ==
    /\ pc = "get"
    /\ \E ok \in Outcomes("get"), p \in Payloads :
         LET r == ExtractBody(p)
             got == Append(emails, messages[idx])
         IN
         IF ~ok
           THEN IF OnFetchError("get") = "raise"
                  THEN /\ run' = [Called("get") EXCEPT !.fetchError = TRUE]
                       /\ Finish("exception", "HttpError")
                       /\ UNCHANGED <<emails, idx, body>>
                  ELSE /\ run' = [Called("get") EXCEPT !.fetchError = TRUE,
                                                       !.listed = TRUE]
                       /\ ReturnEmails(emails)
         ELSE IF Raises(r)
           THEN /\ run' = Called("get")
                /\ Finish("exception", r)
                /\ UNCHANGED <<emails, idx, body>>
         ELSE IF idx < Len(messages)
           THEN /\ run' = Called("get")
                /\ emails' = got
                /\ body' = r
                /\ idx' = idx + 1
                /\ UNCHANGED <<pc, exit, error>>
           ELSE /\ run' = [Called("get") EXCEPT !.listed = TRUE]
                /\ ReturnEmails(got)
    /\ UNCHANGED <<tokenFile, env, remote, mode, creds, messages, args, event>>

\* `if response.status_code == 200`
MemoCreated(status) == status = 200

\* The note service stores the memo exactly when it answers in the 200 class.
SinkStores(status) == status \in 200..299

\* The note service stores one more memo for a message it holds n of.
OneMore(n) == IF n = "none" THEN "one" ELSE "many"

\* Mutant: mark_as_read is called whatever create_memo returned.
AfterMemoAlwaysMark(ok) == "mark"

\* `if create_memo(content): mark_as_read(...) else: print(...)`
AfterMemo(ok) == IF ok THEN "mark" ELSE "next"

\* Mutant: the loop is left after its first pass.
NextItemStops(i, n) == Finish("ok", "none") /\ idx' = i

\* The for loop moves on from position i of a list of n.
NextItem(i, n) ==
    IF i < n
      THEN pc' = "memo" /\ idx' = i + 1 /\ UNCHANGED <<exit, error>>
      ELSE Finish("ok", "none") /\ idx' = i

\* email_to_memo_content and create_memo for emails[idx].
CreateMemo ==
    /\ pc = "memo"
    /\ LET id == emails[idx] IN
       IF ~memosToken
         THEN \* create_memo returns False without a request
              /\ run' = [run EXCEPT !.failed = @ \cup {id},
                                    !.processed = Append(@, id)]
              /\ NextItem(idx, Len(emails))
              /\ UNCHANGED notes
         ELSE
           /\ \/ \E status \in Statuses :
                   LET ok == MemoCreated(status) IN
                   /\ notes' = [notes EXCEPT
                                  ![id] = IF SinkStores(status) THEN OneMore(@) ELSE @]
                   /\ run' = [run EXCEPT
                                !.lastStatus = status,
                                !.lastOk = ok,
                                !.posted = @ \cup {id},
                                !.created = IF ok THEN @ \cup {id} ELSE @,
                                !.failed = IF ok THEN @ ELSE @ \cup {id},
                                !.processed = IF AfterMemo(ok) = "mark"
                                                THEN @ ELSE Append(@, id)]
                   /\ IF AfterMemo(ok) = "mark"
                        THEN pc' = "mark" /\ UNCHANGED <<idx, exit, error>>
                        ELSE NextItem(idx, Len(emails))
              \/ \* requests.post raises: no response (the memo may be stored)
                 /\ \E stored \in BOOLEAN :
                      notes' = [notes EXCEPT ![id] = IF stored THEN OneMore(@) ELSE @]
                 /\ run' = [run EXCEPT !.posted = @ \cup {id}]
                 /\ Finish("exception", "ConnectionError")
                 /\ UNCHANGED idx
    /\ UNCHANGED <<tokenFile, env, mailbox, consumed, mode, creds, listing, emails, args, event>>

\* mark_as_read(service, email['id'])
MarkAsRead ==
    /\ pc = "mark"
    /\ LET id == emails[idx] IN
       \E ok \in Outcomes("modify") :
         IF ok
           THEN /\ mailbox' = [mailbox EXCEPT ![id] = "read"]
                /\ consumed' = consumed \cup {id}
                /\ run' = [Called("modify") EXCEPT !.marked = @ \cup {id},
                                                   !.processed = Append(@, id)]
                /\ NextItem(idx, Len(emails))
           ELSE /\ run' = [Called("modify") EXCEPT !.marked = @ \cup {id}]
                /\ Finish("exception", "HttpError")
                /\ UNCHANGED <<mailbox, consumed, idx>>
    /\ UNCHANGED <<tokenFile, env, notes, mode, creds, listing, emails, args, event>>

\* ------------------------------------------------------------- send_email
\* service.users().messages().send(...).execute()
SendMessage ==
    /\ pc = "send"
    /\ run' = Called("send")
    /\ \E ok \in Outcomes("send") :
         IF ok THEN Finish("ok", "none") ELSE Finish("exception", "HttpError")
    /\ UNCHANGED <<tokenFile, env, remote, mode, creds, listing, emails, idx, args, event>>

\* -------------------------------------------------- create_calendar_event
\* datetime values
DT(yy, mm, dd, hh, mi, ss) ==
    [y |-> yy, mo |-> mm, d |-> dd, h |-> hh, mi |-> mi, s |-> ss]

\* datetime.strptime(text, fmt) succeeds; the value it returns.
Matches(t, f) == t.fmt = f
Strptime(t) == DT(t.y, t.mo, t.d, t.h, t.mi, t.s)

\* dt.isoformat() and dt.strftime('%Y-%m-%d')
IsoFormat(dt) == <<dt.y, dt.mo, dt.d, dt.h, dt.mi, dt.s>>
StrfDate(dt) == <<dt.y, dt.mo, dt.d>>

\* dt + timedelta(days=1), dt + timedelta(hours=1)
IsLeap(yy) == (yy % 4 = 0 /\ yy % 100 # 0) \/ yy % 400 = 0
DaysInMonth(yy, mm) ==
    IF mm = 2 THEN (IF IsLeap(yy) THEN 29 ELSE 28)
    ELSE IF mm \in {4, 6, 9, 11} THEN 30 ELSE 31
PlusOneDay(dt) ==
    IF dt.d < DaysInMonth(dt.y, dt.mo) THEN [dt EXCEPT !.d = @ + 1]
    ELSE IF dt.mo < 12 THEN [dt EXCEPT !.mo = @ + 1, !.d = 1]
    ELSE [dt EXCEPT !.y = @ + 1, !.mo = 1, !.d = 1]
PlusOneHour(dt) ==
    IF dt.h < 23 THEN [dt EXCEPT !.h = @ + 1]
    ELSE [PlusOneDay(dt) EXCEPT !.h = 0]

\* parse_datetime accepts the string.
ParsesDatetime(t) == \E k \in 1..Len(Formats) : Matches(t, Formats[k])

\* Its result (the time zone is overwritten by main).
ParseDatetime(t) == Side("dateTime", IsoFormat(Strptime(t)), "America/Phoenix")

\* parse_date accepts the string.
ParsesDate(t) == Matches(t, DateFormat)

ParseDate(t) == Side("date", StrfDate(Strptime(t)), "")

\* args.start.replace('T', ' ').split('.')[0]
ReplaceT(t) ==
    [t EXCEPT !.fmt = IF @ = Formats[3] THEN Formats[1]
                      ELSE IF @ = Formats[4] THEN Formats[2] ELSE @]

\* argparse defaults
DefaultReminder == 30
Reminder(a) == IF a.reminder = <<>> THEN DefaultReminder ELSE a.reminder[1]
Timezone(a) == IF a.timezone = "" THEN "America/Phoenix" ELSE a.timezone

\* Mutant: the override is built whatever the lead time.
RemindersAlways(n) == <<[method |-> "popup", minutes |-> n]>>

\* create_event: `if reminder_minutes:` adds useDefault False and one override.
Reminders(n) ==
    IF n # 0 THEN <<[method |-> "popup", minutes |-> n]>> ELSE <<>>

\* Mutant: the end of an all-day event is the day itself.
AllDayEndSameDay(t) == Side("date", StrfDate(Strptime(t)), "")

\* All-day: `datetime.strptime(args.date, '%Y-%m-%d') + timedelta(days=1)`.
AllDayEnd(t) == Side("date", StrfDate(PlusOneDay(Strptime(t))), "")

\* Timed without --end: the start read again as '%Y-%m-%d %H:%M'.
DefaultEndParses(t) == Matches(ReplaceT(t), Formats[1])
DefaultEnd(t, tz) ==
    Side("dateTime", IsoFormat(PlusOneHour(Strptime(ReplaceT(t)))), tz)

\* The lines of main that build start and end raise ValueError.
BuildRaises(a) ==
    IF a.date # NotGiven THEN ~ParsesDate(a.date)
    ELSE \/ ~ParsesDatetime(a.start)
         \/ a.end # NotGiven /\ ~ParsesDatetime(a.end)
         \/ a.end = NotGiven /\ ~DefaultEndParses(a.start)

EventStart(a) ==
    IF a.date # NotGiven THEN ParseDate(a.date)
    ELSE [ParseDatetime(a.start) EXCEPT !.timeZone = Timezone(a)]

EventEnd(a) ==
    IF a.date # NotGiven THEN AllDayEnd(a.date)
    ELSE IF a.end # NotGiven
      THEN [ParseDatetime(a.end) EXCEPT !.timeZone = Timezone(a)]
      ELSE [DefaultEnd(a.start, Timezone(a)) EXCEPT !.timeZone = Timezone(a)]

\* main for the command line a, up to the first call of get_calendar_service.
CalendarMain(a) ==
    /\ pc = "idle"
    /\ args' = a
    /\ Begin(IF a.auth THEN "calendar_auth" ELSE "calendar")
    /\ IF a.auth THEN Goto("load")
       ELSE IF ~a.title THEN Finish("exit2", "--title is required")
       ELSE IF a.date = NotGiven /\ a.start = NotGiven
         THEN Finish("exit2", "Either --date or --start is required")
       ELSE Goto("load")
    /\ UNCHANGED <<tokenFile, env, remote>>

StartCalendar == \E a \in SmallArgs : CalendarMain(a)

StartCalendarAny == \E a \in CalendarArgs : CalendarMain(a)

\* main builds start and end, create_event builds the request body.
BuildEvent ==
    /\ pc = "event"
    /\ IF BuildRaises(args)
         THEN Finish("exception", "ValueError") /\ UNCHANGED event
         ELSE /\ event' = [start |-> EventStart(args), end |-> EventEnd(args),
                           reminders |-> Reminders(Reminder(args))]
              /\ pc' = "insert"
              /\ UNCHANGED <<exit, error>>
    /\ UNCHANGED <<tokenFile, env, remote, mode, creds, listing, emails, idx, args, run>>

\* create_event: service.events().insert(...).execute()
InsertEvent ==
    /\ pc = "insert"
    /\ run' = Called("insert")
    /\ \E ok \in Outcomes("insert") :
         IF ok THEN Finish("ok", "none") ELSE Finish("exception", "HttpError")
    /\ UNCHANGED <<tokenFile, env, remote, mode, creds, listing, emails, idx, args, event>>

\* ------------------------------------------------------------ environment
\* The process is killed (or the machine stops) wherever it is.
Crash ==
    /\ pc \notin {"idle", "done"}
    /\ Finish("killed", "none")
    /\ UNCHANGED <<tokenFile, env, remote, mode, creds, listing, emails, idx, args, event, run>>

\* The operator removes credentials/gmail_credentials.json between runs.
RemoveCredentialsFile ==
    /\ pc = "idle"
    /\ credentialsFile
    /\ credentialsFile' = FALSE
    /\ UNCHANGED <<tokenFile, memosToken, remote, mode, pc, exit, error, creds,
                   listing, emails, idx, args, event, run>>

\* The process is gone and its memory with it.
ProcessExit ==
    /\ pc = "done"
    /\ pc' = "idle"
    /\ mode' = "fetch"
    /\ exit' = "none"
    /\ error' = "none"
    /\ creds' = None
    /\ messages' = <<>>
    /\ body' = ""
    /\ emails' = <<>>
    /\ idx' = 0
    /\ args' = NoArgs
    /\ event' = NoEvent
    /\ run' = NewRun(None)
    /\ memosToken' = FALSE
    /\ UNCHANGED <<tokenFile, credentialsFile, remote>>

\* A message arrives in the inbox, unread.
NewMail ==
    /\ pc = "idle"
    /\ \E i \in Items :
         /\ mailbox[i] = "none"
         /\ \A j \in Items : j < i => mailbox[j] # "none"
         /\ mailbox' = [mailbox EXCEPT ![i] = "unread"]
    /\ UNCHANGED <<tokenFile, env, notes, consumed, mode, pc, exit,
                   error, creds, listing, emails, idx, args, event, run>>

\* Time passes: the access token in the file reaches its expiry.
Expire ==
    /\ pc = "idle"
    /\ tokenFile.kind = "creds"
    /\ ~tokenFile.expired
    /\ tokenFile' = [tokenFile EXCEPT !.expired = TRUE]
    /\ UNCHANGED <<env, remote, mode, pc, exit, error, creds, listing, emails, idx,
                   args, event, run>>

Next ==
    \/ StartFetch
    \/ StartSend
    \/ StartCalendar
    \/ LoadToken
    \/ Refresh
    \/ Grant
    \/ OpenTokenFile
    \/ WriteTokenFile
    \/ BuildService
    \/ ListUnread
    \/ GetMessage
    \/ CreateMemo
    \/ MarkAsRead
    \/ SendMessage
    \/ BuildEvent
    \/ InsertEvent
    \/ Crash
    \/ ProcessExit
    \/ NewMail
    \/ Expire
    \/ RemoveCredentialsFile

Spec == Init /\ [][Next]_vars

\* The calendar script alone, over every command line.
NextCalendar ==
    \/ StartCalendarAny
    \/ LoadToken
    \/ Refresh
    \/ Grant
    \/ OpenTokenFile
    \/ WriteTokenFile
    \/ BuildService
    \/ BuildEvent
    \/ InsertEvent
    \/ Crash
    \/ ProcessExit
    \/ Expire
    \/ RemoveCredentialsFile

SpecCalendar == Init /\ [][NextCalendar]_vars

TypeOK ==
    /\ tokenFile \in {None, Truncated} \cup CredsValues
    /\ creds \in {None} \cup CredsValues
    /\ mode \in Modes
    /\ pc \in {"idle", "done", "load", "refresh", "grant", "open", "write", "build",
               "list", "get", "memo", "mark", "send", "event", "insert"}
    /\ exit \in {"none", "ok", "exit1", "exit2", "exception", "killed"}
    /\ \A i \in Items : notes[i] \in {"none", "one", "many"}

\* ================================================================== claims
Insufficient(c, m) ==
    /\ c.kind = "creds"
    /\ \/ m = "calendar" /\ ~(Required("insert") \subseteq c.granted)
       \/ m = "fetch" /\ ~(Required("list") \cup Required("modify") \subseteq c.granted)
       \/ m = "send" /\ ~(Required("send") \subseteq c.granted)

\* C1: in a run of fetch_email, mark_as_read is invoked for a message only
\* after create_memo returned True for it in that run; and (crashes allowed
\* anywhere) every message whose UNREAD label the pipeline removed has a memo
\* in the note service.
C1_MarkOnlyAfterCreate ==
    /\ run.marked \subseteq run.created
    /\ \A i \in consumed : notes[i] # "none"

\* A message consumed by this run that holds two memos: an earlier run stored
\* one and ended before the message was marked.
C1_Witness ==
    \E i \in Items : i \in run.marked /\ mailbox[i] = "read" /\ notes[i] = "many"

\* C2: a run of fetch_email that reaches its end has gone through every
\* listed message in listing order, whatever create_memo returned for each;
\* the messages for which it returned True are exactly those marked as read,
\* and none for which it returned False was marked.
C2_PartialFailureIsolation ==
    /\ run.failed \cap run.marked = {}
    /\ (pc = "done" /\ exit = "ok" /\ run.listed) =>
         /\ run.processed = emails
         /\ \A k \in 1..Len(emails) :
              LET i == emails[k] IN
              /\ i \in run.created \cup run.failed
              /\ i \in run.created <=> mailbox[i] = "read"
              /\ i \in run.failed <=> mailbox[i] = "unread"

\* Three messages listed, the second rejected: 2 delivered, 1 failed.
C2_Witness ==
    /\ pc = "done" /\ exit = "ok" /\ Len(emails) = 3
    /\ emails[2] \in run.failed
    /\ run.created = {emails[1], emails[3]}
    /\ mailbox[emails[1]] = "read" /\ mailbox[emails[3]] = "read"
    /\ mailbox[emails[2]] = "unread"

\* C3 (as claimed): when the credentials read from the token file are expired
\* and have a refresh token, get_*_service returns after exactly one refresh
\* call and with the refreshed credentials written to the token file, in
\* every entry point.
C3_RefreshPersisted ==
    (run.obtained /\ Refreshable(run.loaded)) =>
        /\ run.refreshCalls = 1
        /\ tokenFile = ToJson(creds)

C5_ScopeChecked ==
    /\ (run.obtained /\ Insufficient(run.loaded, mode)) => run.grantCalls = 1
    /\ \A c \in run.calls : Required(c[1]) \subseteq c[2]

\* C6 (as claimed): a rejected refresh leads to a new authorization, the run
\* does not end with the refresh error.
C6_RefreshFallback ==
    run.refreshRejected => ~(pc = "done" /\ error = "RefreshError")

\* C7 (as claimed): however a run ended, a crash during the save included,
\* the token file holds what it held when the run started or the complete
\* new credentials.
C7_AtomicPersist ==
    pc = "done" => tokenFile \in {run.tokenFile0, ToJson(creds)}

\* C8: when fetch_email runs without --auth and MEMOS_API_TOKEN is unset, the
\* run has ended with exit code 1 having read no token, refreshed nothing,
\* started no grant, written no file and made no API or note request.
C8_NoSinkTokenNoRemote ==
    (mode = "fetch" /\ pc # "idle" /\ ~memosToken) =>
        /\ pc = "done" /\ exit = "exit1"
        /\ run = NewRun(tokenFile)
        /\ creds = None
        /\ emails = <<>>

\* The abort, where there was work to do: unread mail and an expired token.
C8_Witness ==
    /\ mode = "fetch" /\ pc = "done" /\ ~memosToken
    /\ error = "MEMOS_API_TOKEN not set"
    /\ Refreshable(tokenFile)
    /\ \E i \in Items : mailbox[i] = "unread"

\* C9 (as claimed): create_memo returns True for every status from 200 to
\* 299 and False for every other status.
C9_StatusClass ==
    run.lastStatus # 0 => (run.lastOk <=> run.lastStatus \in 200..299)

\* C10: no step sends a note-creation request for a message that the
\* pipeline has already marked as read.
C10_NoResubmission ==
    [][\A i \in consumed : i \in run'.posted => i \in run.posted]_vars

\* A later run posts other messages while one consumed earlier stays out.
C10_Witness ==
    \E i \in consumed :
        /\ i \notin run.marked
        /\ run.listed /\ run.posted # {}

\* The run has made the call api.
Made(api) == \E c \in run.calls : c[1] = api

\* datetime.toordinal(), written out: days since 0001-01-01.
DaysBeforeMonth(yy, mm) ==
    LET cum == <<0, 31, 59, 90, 120, 151, 181, 212, 243, 273, 304, 334>>
    IN cum[mm] + (IF mm > 2 /\ IsLeap(yy) THEN 1 ELSE 0)
Ordinal(v) ==
    LET yy == v[1] - 1
    IN 365 * yy + (yy \div 4) - (yy \div 100) + (yy \div 400)
       + DaysBeforeMonth(v[1], v[2]) + v[3]
\* seconds from the moment a to the moment b
Elapsed(a, b) ==
    (Ordinal(b) - Ordinal(a)) * 86400
    + ((b[4] - a[4]) * 60 + (b[5] - a[5])) * 60 + (b[6] - a[6])

\* The request body is built (the run is at or past the insert call).
EventBuilt == mode = "calendar" /\ event # NoEvent

\* C11: in a calendar run that ended on an unparsable --date, --start or
\* --end, no refresh, no interactive grant, no write of the token file and no
\* insert call was made.
C11_RejectedBeforeRemote ==
    (mode = "calendar" /\ pc = "done" /\ error = "ValueError") =>
        /\ run.refreshCalls = 0
        /\ run.grantCalls = 0
        /\ run.writes = 0
        /\ ~Made("insert")

\* C12: a timed run without --end whose --start parse_datetime accepts builds
\* the event (no ValueError), its end is the start plus 3600 seconds in the
\* same time zone, and the run goes on to the insert call.
C12_DefaultEndOneHour ==
    (/\ mode = "calendar" /\ run.obtained /\ exit # "killed"
     /\ pc \in {"insert", "done"}
     /\ args.date = NotGiven /\ args.end = NotGiven
     /\ ParsesDatetime(args.start)) =>
        /\ error # "ValueError"
        /\ event.start.kind = "dateTime" /\ event.end.kind = "dateTime"
        /\ Elapsed(event.start.value, event.end.value) = 3600
        /\ event.end.timeZone = event.start.timeZone
        /\ pc = "done" => Made("insert")

\* C13, as stated: with --reminder 0 or without --reminder the request carries
\* no reminders override; with --reminder N > 0 exactly one popup of N.
C13_NoOverrideWhenUnset ==
    EventBuilt =>
        IF args.reminder = <<>> \/ args.reminder = <<0>>
          THEN event.reminders = <<>>
          ELSE event.reminders = <<[method |-> "popup", minutes |-> args.reminder[1]]>>

\* C13, amended: without --reminder the lead time is 30 and the request
\* carries one popup override of 30 minutes; with --reminder 0 it carries no
\* override; with --reminder N > 0 exactly one popup override of N minutes.
C13_ReminderOverride ==
    EventBuilt =>
        event.reminders =
          CASE args.reminder = <<>> -> <<[method |-> "popup", minutes |-> 30]>>
            [] args.reminder = <<0>> -> <<>>
            [] OTHER -> <<[method |-> "popup", minutes |-> args.reminder[1]]>>

C13_Witness ==
    /\ EventBuilt /\ pc = "done" /\ exit = "ok" /\ Made("insert")
    /\ args.reminder = <<>>
    /\ Len(event.reminders) = 1 /\ event.reminders[1].minutes = 30

\* C14: once an interactive grant of any entry point has succeeded and the
\* credentials are saved, the token file holds credentials granted every
\* scope that some entry point needs.
C14_GrantRequestsUnion ==
    (run.grantCalls > 0 /\ run.writes > 0 /\ pc # "write") =>
        /\ tokenFile.kind = "creds"
        /\ \A api \in {"list", "get", "modify", "send", "insert"} :
             Required(api) \subseteq tokenFile.granted

\* C15: an event at the insert call has start and end of one kind; all-day:
\* both are dates, the start is --date and the end the day after it; timed:
\* both carry the same time zone.
C15_StartEndSameKind ==
    EventBuilt =>
        /\ event.start.kind = event.end.kind
        /\ event.start.kind \in {"date", "dateTime"}
        /\ event.start.kind = "date" <=> args.date # NotGiven
        /\ event.start.kind = "date" =>
             /\ event.start.value = <<args.date.y, args.date.mo, args.date.d>>
             /\ Len(event.end.value) = 3
             /\ Ordinal(event.end.value) = Ordinal(event.start.value) + 1
             /\ event.start.value = <<2026, 2, 10>> => event.end.value = <<2026, 2, 11>>
        /\ event.start.kind = "dateTime" =>
             event.start.timeZone = event.end.timeZone

\* --date together with --start and --end, on the last day of a year.
C15_Witness ==
    /\ EventBuilt /\ pc = "done" /\ Made("insert")
    /\ args.start # NotGiven /\ args.end # NotGiven
    /\ event.start = Side("date", <<2026, 12, 31>>, "")
    /\ event.end = Side("date", <<2027, 1, 1>>, "")

\* C16: no run of fetch_email ends on the failure of a mark_as_read call
\* while listed messages are still waiting.
C16_MarkFailureIsolated ==
    ~(/\ mode = "fetch" /\ pc = "done" /\ exit = "exception"
      /\ error = "HttpError" /\ run.listed
      /\ idx < Len(emails)
      /\ emails[idx] \in run.created)

\* C17: no run of fetch_email ends on an exception of the body extraction.
C17_BodyExtractionNeverFatal ==
    ~(mode = "fetch" /\ pc = "done" /\ exit = "exception" /\ Raises(error))

\* C18: once the list call or a full fetch has failed, the run is over with
\* the HttpError, get_unread_emails has not returned, and the run has posted
\* no memo and asked for no label change.
C18_FetchErrorAborts ==
    run.fetchError =>
        /\ pc = "done" /\ exit = "exception" /\ error = "HttpError"
        /\ ~run.listed
        /\ run.posted = {} /\ run.created = {} /\ run.marked = {}
        /\ ~Made("modify")

\* The second full fetch fails while unread mail is waiting.
C18_Witness ==
    /\ run.fetchError /\ Made("get")
    /\ Len(messages) >= 2 /\ idx = 2 /\ Len(emails) = 1
    /\ \A k \in 1..Len(messages) : mailbox[messages[k]] = "unread"

\* C19: in fetch_email and create_calendar_event, when the token file holds
\* nothing usable (absent, unreadable, or credentials neither valid nor
\* refreshable) and the client-secrets file is missing, the run is over as
\* soon as the token file has been looked at, with exit status 1 (a traceback
\* for the unreadable file), without a grant, a write of the token file or an
\* API call.
C19_MissingCredentialSource ==
    (/\ mode # "send" /\ run.read /\ ~credentialsFile
     /\ NeedsToken(run.loaded) /\ ~Refreshable(run.loaded)) =>
        /\ pc = "done"
        /\ exit = (IF run.tokenFile0.kind = "truncated" THEN "exception" ELSE "exit1")
        /\ run.grantCalls = 0 /\ run.writes = 0 /\ run.refreshCalls = 0
        /\ run.calls = {}
        /\ ~run.obtained
        /\ tokenFile = run.tokenFile0

\* Expired credentials without a refresh token, client secrets removed.
C19_Witness ==
    /\ mode = "calendar" /\ pc = "done" /\ exit = "exit1" /\ ~credentialsFile
    /\ run.loaded.kind = "creds" /\ run.loaded.expired /\ ~run.loaded.refresh_token

\* C20: send_email never starts a grant; it makes the send call only with
\* valid credentials, found valid in the file or refreshed successfully; with
\* no token file, or credentials neither valid nor refreshable, it exits with
\* status 1 without the send call.
C20_SendNeverGrants ==
    mode = "send" =>
        /\ run.grantCalls = 0
        /\ Made("send") =>
             /\ Valid(creds)
             /\ Valid(run.loaded) \/ (run.refreshCalls > 0 /\ ~run.refreshRejected)
        /\ (/\ run.read /\ run.tokenFile0.kind # "truncated"
            /\ NeedsToken(run.loaded) /\ ~Refreshable(run.loaded)) =>
             /\ pc = "done" /\ exit = "exit1"
             /\ ~Made("send")

\* Sent after a refresh; and refused on expired credentials without a
\* refresh token.
C20_Witness ==
    /\ mode = "send" /\ pc = "done"
    /\ \/ Made("send") /\ run.refreshCalls = 1 /\ exit = "ok"
       \/ exit = "exit1" /\ run.loaded.kind = "creds" /\ run.loaded.expired

====
